---- MODULE Spec2Model ----
(***************************************************************************)
(* Model of the screening engine of src/app.py: fetch_ohlcv (the retrying  *)
(* candle fetch), fetch_btc_trend (the shared market trend), run_screening *)
(* (the per-symbol loop, the three conditions, the score, the rows, the    *)
(* final sort) and the script's top level, which runs run_screening again  *)
(* on every rerun of the page.                                             *)
(*                                                                         *)
(* Numbers are the code's floats, modelled as exact rationals extended     *)
(* with NaN and the two infinities, with the IEEE rules for them (x/0 is   *)
(* an infinity, 0/0 and inf-inf are NaN, a comparison with NaN is false).  *)
(* Rounding is not modelled.                                               *)
(***************************************************************************)
EXTENDS Integers, Sequences, FiniteSets, TLC

(***************************************************************************)
(* Program constants                                                       *)
(***************************************************************************)
REFRESH_MIN == 15
\* a lookback window one bar short
ATR_LEN_SHORT == 96 - 1
ATR_LEN == 96
RETRIES == 3
BTC_LIMIT == 22
RSI_WINDOW == 14
RSI_THRESHOLD == 30
MIN_SCORE == 1
PAIR_TF == "15m"
BTC_TF == "4h"
\* limit=ATR_LEN + 2, the default of fetch_ohlcv
DEFAULT_LIMIT == ATR_LEN + 2
\* the hardcoded list of load_symbols
SYMBOLS == <<"BTCUSDT", "ETHUSDT", "ADAUSDT", "BNBUSDT", "XRPUSDT">>

(***************************************************************************)
(* Bounds of the model                                                     *)
(***************************************************************************)
\* the symbol list screened is the first MaxSyms symbols of SYMBOLS
MaxSyms == 3
\* number of runs of the script (the first one and the reruns)
MaxRuns == 2

(***************************************************************************)
(* Floats: [k, n, d] with k = "fin" (the rational n/d, d > 0, in lowest    *)
(* terms), "nan", or "inf" (n = 1 or -1 is the sign).                      *)
(***************************************************************************)
RECURSIVE GCD(_, _)
GCD(a, b) == IF b = 0 THEN a ELSE GCD(b, a % b)

AbsInt(n) == IF n < 0 THEN -n ELSE n

Sign(n) == IF n > 0 THEN 1 ELSE IF n < 0 THEN -1 ELSE 0

Fin(n, d) ==
    LET g == GCD(AbsInt(n), AbsInt(d))
        s == IF d < 0 THEN -1 ELSE 1
    IN  [k |-> "fin", n |-> s * (n \div g), d |-> s * (d \div g)]

Flt(n) == [k |-> "fin", n |-> n, d |-> 1]

NaN == [k |-> "nan", n |-> 0, d |-> 0]

Inf(s) == [k |-> "inf", n |-> s, d |-> 0]

IsNaN(x) == x.k = "nan"

IsInf(x) == x.k = "inf"

IsFin(x) == x.k = "fin"

\* the sign of a float that is not NaN
SignOf(x) == Sign(x.n)

Neg(x) == IF IsNaN(x) THEN NaN ELSE [x EXCEPT !.n = -x.n]

LCM(a, b) == (a \div GCD(a, b)) * b

Add(x, y) ==
    IF IsNaN(x) \/ IsNaN(y) THEN NaN
    ELSE IF IsInf(x) /\ IsInf(y) THEN (IF x.n = y.n THEN x ELSE NaN)
    ELSE IF IsInf(x) THEN x
    ELSE IF IsInf(y) THEN y
    ELSE LET m == LCM(x.d, y.d)
         IN  Fin(x.n * (m \div x.d) + y.n * (m \div y.d), m)

Sub(x, y) == Add(x, Neg(y))

Mul(x, y) ==
    IF IsNaN(x) \/ IsNaN(y) THEN NaN
    ELSE IF IsInf(x) \/ IsInf(y)
         THEN (IF SignOf(x) * SignOf(y) = 0 THEN NaN ELSE Inf(SignOf(x) * SignOf(y)))
    ELSE LET g1 == GCD(AbsInt(x.n), y.d)
             g2 == GCD(AbsInt(y.n), x.d)
         IN  Fin((x.n \div g1) * (y.n \div g2), (x.d \div g2) * (y.d \div g1))

\* IEEE division: x/0 is an infinity of x's sign (the sign of the zero is not
\* kept: the code only divides by a zero it got as 1 + (-1) = +0.0 and as the
\* mean 0.0 of 0/0), 0/0 is NaN, fin/inf is 0, inf/inf is NaN
Div(x, y) ==
    IF IsNaN(x) \/ IsNaN(y) THEN NaN
    ELSE IF IsInf(x) THEN (IF IsInf(y) THEN NaN
                           ELSE Inf(x.n * (IF y.n < 0 THEN -1 ELSE 1)))
    ELSE IF IsInf(y) THEN Flt(0)
    ELSE IF y.n = 0 THEN (IF x.n = 0 THEN NaN ELSE Inf(Sign(x.n)))
    ELSE Mul(x, Fin(y.d, y.n))

\* x < y, false when either is NaN
Lt(x, y) ==
    IF IsNaN(x) \/ IsNaN(y) THEN FALSE
    ELSE IF IsInf(x) THEN x.n = -1 /\ ~(IsInf(y) /\ y.n = -1)
    ELSE IF IsInf(y) THEN y.n = 1
    ELSE LET m == LCM(x.d, y.d)
         IN  x.n * (m \div x.d) < y.n * (m \div y.d)

Gt(x, y) == Lt(y, x)

Le(x, y) == ~IsNaN(x) /\ ~IsNaN(y) /\ ~Lt(y, x)

AbsNum(x) == IF IsNaN(x) THEN NaN ELSE [x EXCEPT !.n = AbsInt(x.n)]

\* the larger of two floats, NaN skipped (DataFrame.max(axis=1), skipna)
MaxSkipNa(x, y) ==
    IF IsNaN(x) THEN y ELSE IF IsNaN(y) THEN x ELSE IF Lt(x, y) THEN y ELSE x

(***************************************************************************)
(* Candle series (the DataFrame of fetch_ohlcv): a sequence of bars, each  *)
(* with the float columns h, l, c, v the engine reads.  The empty          *)
(* DataFrame is the empty sequence.                                        *)
(***************************************************************************)
Bar(h, l, c, v) == [h |-> h, l |-> l, c |-> c, v |-> v]

\* a column of a DataFrame, as a sequence (df.c, df.v, ...)
Col(frame, f) == [j \in 1..Len(frame) |-> frame[j][f]]

\* Series.tail(n)
TailN(s, n) == IF Len(s) <= n THEN s ELSE SubSeq(s, Len(s) - n + 1, Len(s))

\* the sum of s[lo..hi], by halves
RECURSIVE SumRange(_, _, _)
SumRange(s, lo, hi) ==
    IF lo > hi THEN Flt(0)
    ELSE IF lo = hi THEN s[lo]
    ELSE LET mid == (lo + hi) \div 2
         IN  Add(SumRange(s, lo, mid), SumRange(s, mid + 1, hi))

SumSeq(s, j) == SumRange(s, 1, j)

\* Series.mean(): NaN entries are skipped, the mean of nothing is NaN
Mean(s) ==
    LET vals == SelectSeq(s, LAMBDA x : ~IsNaN(x))
    IN  IF Len(vals) = 0 THEN NaN ELSE Div(SumSeq(vals, Len(vals)), Flt(Len(vals)))

\* Series.iat[-1]
Last(s) == s[Len(s)]

\* ta.volatility.AverageTrueRange._true_range with close.shift(1): the first
\* bar has no previous close and its row maximum skips the NaN
TrueRange(frame) ==
    [j \in 1..Len(frame) |->
        LET prev_close == IF j = 1 THEN NaN ELSE frame[j - 1].c
        IN  MaxSkipNa(MaxSkipNa(Sub(frame[j].h, frame[j].l),
                                AbsNum(Sub(frame[j].h, prev_close))),
                      AbsNum(Sub(frame[j].l, prev_close)))]

RECURSIVE WilderAtr(_, _, _)
WilderAtr(tr, window, j) ==
    IF j = window
    THEN Mean(SubSeq(tr, 1, window))
    ELSE Div(Add(Mul(WilderAtr(tr, window, j - 1), Flt(window - 1)), tr[j]), Flt(window))

\* AverageTrueRange(df.h, df.l, df.c, window).average_true_range().iat[-1],
\* for a frame of at least window bars
AverageTrueRange(frame, window) == WilderAtr(TrueRange(frame), window, Len(frame))

\* Series.pct_change().fillna(0): the first entry has no predecessor
PctChangeFilled(c) ==
    [j \in 1..Len(c) |->
        LET r == IF j = 1 THEN NaN ELSE Sub(Div(c[j], c[j - 1]), Flt(1))
        IN  IF IsNaN(r) THEN Flt(0) ELSE r]

\* Series.rolling(w).mean().iat[-1]: NaN unless the last w entries are all
\* finite numbers
RollingMeanLast(s, w) ==
    IF Len(s) < w THEN NaN
    ELSE LET win == TailN(s, w)
         IN  IF \E j \in 1..w : ~IsFin(win[j]) THEN NaN
             ELSE Div(SumSeq(win, w), Flt(w))

\* rs.replace([inf, -inf], nan).fillna(0)
ReplaceInfFillNa(x) == IF IsFin(x) THEN x ELSE Flt(0)

\* rsi.iat[-1] of lines 141-153, for a frame that is not empty
RsiVal(frame) ==
    LET gain  == PctChangeFilled(Col(frame, "c"))
        delta == RollingMeanLast(gain, RSI_WINDOW)
        loss  == RollingMeanLast([j \in 1..Len(gain) |-> Neg(gain[j])], RSI_WINDOW)
        rs    == ReplaceInfFillNa(Div(delta, loss))
    IN  IF Len(frame) = 0 THEN Flt(50)
        ELSE Sub(Flt(100), Div(Flt(100), Add(Flt(1), rs)))

BODY_FCTR == Fin(3, 10)
VOL_MULT == Fin(5, 2)

\* cond2 = close < base - BODY_FCTR * atr and vol > vavg * VOL_MULT
Cond2(close, base, atr, vol, vavg) ==
    Lt(close, Sub(base, Mul(BODY_FCTR, atr))) /\ Gt(vol, Mul(vavg, VOL_MULT))

\* cond3 = rsi_val < 30
Cond3(rsi_val) == Lt(rsi_val, Flt(RSI_THRESHOLD))

\* the conditions counted as a set of values
ScoreOfDistinct(conditions) ==
    Cardinality({conditions[j] : j \in DOMAIN conditions} \cap {TRUE})

\* score = sum(conditions)
ScoreOf(conditions) == Cardinality({j \in DOMAIN conditions : conditions[j]})

\* the labels of 2 and 1 exchanged
StateOfSwapped(score) ==
    CASE score = 3 -> "FULL PRE-DIP"
      [] score = 2 -> "WARM-DIP"
      [] score = 1 -> "NEAR-DIP"

\* the State label of a score that gets a row (the labels' emoji left out)
StateOf(score) ==
    CASE score = 3 -> "FULL PRE-DIP"
      [] score = 2 -> "NEAR-DIP"
      [] score = 1 -> "WARM-DIP"

(***************************************************************************)
(* The market-data provider's answers.                                     *)
(***************************************************************************)
\* n bars at price p and volume v, each with high p+3 and low p-2
Flat(n, p, v) == [j \in 1..n |-> Bar(Flt(p + 3), Flt(p - 2), Flt(p), Flt(v))]

\* s with its last bar replaced
WithLast(s, b) == [s EXCEPT ![Len(s)] = b]

\* 98 bars with high 103 and low 98: closes 100 but for one 102 and a last
\* 98, volumes 98 but for one 88 and a last 300 (mean close 100, ATR 5, mean
\* volume 100 over the last 96 bars)
DipSeries ==
    [j \in 1..DEFAULT_LIMIT |->
        Bar(Flt(103), Flt(98),
            Flt(IF j = DEFAULT_LIMIT THEN 98 ELSE IF j = 50 THEN 102 ELSE 100),
            Flt(IF j = DEFAULT_LIMIT THEN 300 ELSE IF j = 50 THEN 88 ELSE 98))]

NaNSeries == [j \in 1..DEFAULT_LIMIT |-> Bar(NaN, NaN, NaN, NaN)]

\* the answers the provider gives to a 15m request with limit 98, by name:
\* "flat" has constant closes, "short" one bar too few, "edge" exactly
\* ATR_LEN bars and a last close above the others, "dip" a last close below
\* them on a volume spike, "nan" bars that parsed to NaN
PairSeries(name) ==
    CASE name = "flat"  -> Flat(DEFAULT_LIMIT, 100, 100)
      [] name = "short" -> Flat(ATR_LEN - 1, 100, 100)
      [] name = "edge"  -> WithLast(Flat(ATR_LEN, 100, 100),
                                    Bar(Flt(105), Flt(100), Flt(102), Flt(100)))
      [] name = "dip"   -> DipSeries
      [] name = "nan"   -> NaNSeries

PairAnswers == {"flat", "short", "edge", "dip", "nan"}

PairFrames == [name \in PairAnswers |-> PairSeries(name)]

\* the answers to the 4h request with limit 22: "tshort" has one bar too
\* few, "tdown" a last close below the others, "tup" one above them
TrendSeries(name) ==
    CASE name = "tshort" -> Flat(BTC_LIMIT - 1, 100, 100)
      [] name = "tdown"  -> WithLast(Flat(BTC_LIMIT, 100, 100),
                                     Bar(Flt(103), Flt(96), Flt(97), Flt(100)))
      [] name = "tup"    -> WithLast(Flat(BTC_LIMIT, 100, 100),
                                     Bar(Flt(105), Flt(98), Flt(104), Flt(100)))

TrendAnswers == {"tshort", "tdown", "tup"}

TrendFrames == [name \in TrendAnswers |-> TrendSeries(name)]

\* the kinds of error one upstream request can raise: raise_for_status on
\* status 451, on another status, a timeout or connection error of
\* requests.get, a body that does not parse
ErrorKinds == {"http451", "http", "timeout", "parse"}

\* only the HTTPError handler
CaughtHttpOnly(kind) == kind \in {"http451", "http"}

\* whether fetch_ohlcv's handlers catch the error and go on to the next
\* attempt (except HTTPError, except Exception)
Caught(kind) == kind \in ErrorKinds

(***************************************************************************)
(* State                                                                   *)
(***************************************************************************)
VARIABLES
    pc,        \* where the script is
    run,       \* the number of this run of the script
    symCache,  \* st.cache_data's entry for load_symbols: <<list>> or <<>>
    syms,      \* run_screening's syms
    i,         \* the loop's position in syms, from 1
    attempt,   \* upstream requests issued by the current call of fetch_ohlcv
    outcome,   \* what the last of them did: "none", "error", "empty", "data"
    df,        \* the frame the last call of fetch_ohlcv returned
    btc,       \* fetch_btc_trend's result: close, ema, below
    rows,      \* run_screening's rows
    df_all,    \* the snapshot run_screening returned
    fetched,   \* keys requested upstream since the TTL window began
    trendGot,  \* history: what the trend call of this run returned: the
               \* answer's name, or "nodata" for an empty frame
    got        \* history: the same for each symbol's call of this run, or
               \* "raised" when the symbol's processing raised

vars == <<pc, run, symCache, syms, i, attempt, outcome, df, btc, rows, df_all,
          fetched, trendGot, got>>

TTL == REFRESH_MIN * 60

\* the symbol lists load_symbols can return: the hardcoded list cut to
\* MaxSyms symbols, or [] from its except branch
SymLists == {SubSeq(SYMBOLS, 1, IF MaxSyms < Len(SYMBOLS) THEN MaxSyms ELSE Len(SYMBOLS)), <<>>}

ZeroTrend == [close |-> Flt(0), ema |-> Flt(0), below |-> FALSE]

Init ==
    /\ pc = "start"
    /\ run = 1
    /\ symCache = <<>>
    /\ syms = <<>>
    /\ i = 0
    /\ attempt = 0
    /\ outcome = "none"
    /\ df = <<>>
    /\ btc = ZeroTrend
    /\ rows = <<>>
    /\ df_all = <<>>
    /\ fetched = {}
    /\ trendGot = "none"
    /\ got = <<>>

\* run_screening, lines 109-111: load_symbols (from the cache when it holds
\* an entry), rows = [], and the call of fetch_btc_trend begins
LoadSymbols ==
    /\ pc = "start"
    /\ \E l \in (IF symCache = <<>> THEN SymLists ELSE {symCache[1]}) :
          /\ syms' = l
          /\ symCache' = <<l>>
    /\ rows' = <<>>
    /\ i' = 0
    /\ attempt' = 0
    /\ outcome' = "none"
    /\ pc' = "trend_fetch"
    /\ UNCHANGED <<run, df, btc, df_all, fetched, trendGot, got>>

\* the (symbol, interval, limit) of the call of fetch_ohlcv in progress
CallKey ==
    IF pc = "trend_fetch" THEN <<"BTCUSDT", BTC_TF, BTC_LIMIT>>
    ELSE <<syms[i], PAIR_TF, DEFAULT_LIMIT>>

InFetch == pc \in {"trend_fetch", "sym_fetch"}

\* where fetch_ohlcv returns to
Returned == IF pc = "trend_fetch" THEN "trend_eval" ELSE "sym_eval"

AnswersFor(key) == IF key[2] = BTC_TF THEN TrendAnswers ELSE PairAnswers

SeriesOf(key, name) == IF key[2] = BTC_TF THEN TrendFrames[name] ELSE PairFrames[name]

\* the history entry of the call that returns
Note(what) ==
    /\ trendGot' = IF pc = "trend_fetch" THEN what ELSE trendGot
    /\ got' = IF pc = "trend_fetch" THEN got ELSE Append(got, what)

(***************************************************************************)
(* fetch_ohlcv: one action per upstream request, by what the request does. *)
(***************************************************************************)
\* one attempt too many
LoopOverLate(n) == n > RETRIES

\* the for loop of fetch_ohlcv is over after n attempts
LoopOver(n) == n >= RETRIES

\* a break in place of the continue: the loop is left at once
AfterSymbolBreak(k, n) == "sort"

\* where the for loop goes after symbol k of n: to the next symbol's fetch,
\* or to the sort after the last one
AfterSymbol(k, n) == IF k + 1 > n THEN "sort" ELSE "sym_fetch"

\* run_screening's continue, and the end of the loop body (df is dead until
\* the next call assigns it)
Continue ==
    /\ i' = i + 1
    /\ attempt' = 0
    /\ outcome' = "none"
    /\ df' = <<>>
    /\ pc' = AfterSymbol(i, Len(syms))

\* the request raises: the handler sleeps and the loop goes on, and after
\* the last attempt fetch_ohlcv returns an empty frame.  An error no handler
\* catches leaves fetch_ohlcv: run_screening's except (line 174) catches it
\* around a symbol's call, nothing does around fetch_btc_trend's.
FetchFail(kind) ==
    /\ InFetch
    /\ ~LoopOver(attempt)
    /\ fetched' = fetched \cup {CallKey}
    /\ IF Caught(kind)
       THEN /\ attempt' = attempt + 1
            /\ outcome' = "error"
            /\ IF LoopOver(attempt + 1)
               THEN /\ df' = <<>>
                    /\ pc' = Returned
                    /\ Note("nodata")
               ELSE UNCHANGED <<df, pc, trendGot, got>>
            /\ UNCHANGED <<i, rows>>
       ELSE IF pc = "sym_fetch"
       THEN /\ Continue
            /\ got' = Append(got, "raised")
            /\ UNCHANGED <<rows, trendGot>>
       ELSE /\ pc' = "aborted"
            /\ UNCHANGED <<i, attempt, outcome, df, rows, trendGot, got>>
    /\ UNCHANGED <<run, symCache, syms, btc, df_all>>

\* the request answers with an empty body: an empty frame, no retry
FetchEmpty ==
    /\ InFetch
    /\ ~LoopOver(attempt)
    /\ fetched' = fetched \cup {CallKey}
    /\ attempt' = attempt + 1
    /\ outcome' = "empty"
    /\ df' = <<>>
    /\ pc' = Returned
    /\ Note("nodata")
    /\ UNCHANGED <<run, symCache, syms, i, btc, rows, df_all>>

\* the request answers with bars: the parsed frame
FetchData(name) ==
    /\ InFetch
    /\ ~LoopOver(attempt)
    /\ name \in AnswersFor(CallKey)
    /\ fetched' = fetched \cup {CallKey}
    /\ attempt' = attempt + 1
    /\ outcome' = "data"
    /\ df' = SeriesOf(CallKey, name)
    /\ pc' = Returned
    /\ Note(name)
    /\ UNCHANGED <<run, symCache, syms, i, btc, rows, df_all>>

(***************************************************************************)
(* fetch_btc_trend                                                         *)
(***************************************************************************)
MinOf(c) == CHOOSE x \in {c[j] : j \in DOMAIN c} : \A j \in DOMAIN c : Le(x, c[j])

MaxOf(c) == CHOOSE x \in {c[j] : j \in DOMAIN c} : \A j \in DOMAIN c : Le(c[j], x)

\* df.c.ewm(span=21).mean().iat[-1] is a mean of the closes with positive
\* weights (0 < 1 - 2/(span+1) < 1); the weights' powers do not fit the
\* model's integers, so the value is any third point strictly between the
\* least and the greatest close, or the close itself when all are equal
EwmMeanLast(c) ==
    LET lo == MinOf(c)
        hi == MaxOf(c)
    IN  IF lo = hi THEN {lo}
        ELSE {Add(lo, Mul(Fin(q, 3), Sub(hi, lo))) : q \in 1..2}

\* the length check left out
FetchBtcTrendNoLen(frame) ==
    IF Len(frame) = 0
    THEN {ZeroTrend}
    ELSE {[close |-> Last(Col(frame, "c")), ema |-> e,
           below |-> Lt(Last(Col(frame, "c")), e)] :
             e \in EwmMeanLast(Col(frame, "c"))}

\* the results fetch_btc_trend can return for the frame its fetch returned
FetchBtcTrend(frame) ==
    IF Len(frame) = 0 \/ Len(frame) < BTC_LIMIT
    THEN {ZeroTrend}
    ELSE {[close |-> Last(Col(frame, "c")), ema |-> e,
           below |-> Lt(Last(Col(frame, "c")), e)] :
             e \in EwmMeanLast(Col(frame, "c"))}

\* fetch_btc_trend's results for every frame its fetch can return, computed
\* once and looked up by frame
TrendResults ==
    {<<f, FetchBtcTrend(f)>> : f \in {<<>>} \cup {TrendFrames[name] : name \in TrendAnswers}}

TrendOf(frame) == (CHOOSE m \in TrendResults : m[1] = frame)[2]

\* run_screening, lines 111-119: the trend is returned; with no symbols the
\* run returns an empty frame, else the loop starts
TrendReturn ==
    /\ pc = "trend_eval"
    /\ \E t \in TrendOf(df) : btc' = t
    /\ IF syms = <<>>
       THEN /\ pc' = "done"
            /\ df_all' = <<>>
            /\ UNCHANGED i
       ELSE /\ pc' = "sym_fetch"
            /\ i' = 1
            /\ UNCHANGED df_all
    /\ attempt' = 0
    /\ outcome' = "none"
    /\ df' = <<>>
    /\ UNCHANGED <<run, symCache, syms, rows, fetched, trendGot, got>>

(***************************************************************************)
(* run_screening: one symbol's processing (lines 125-178)                  *)
(***************************************************************************)
\* df.empty or len(df) < ATR_LEN
Insufficient(frame) == Len(frame) = 0 \/ Len(frame) < ATR_LEN

\* lines 129-133, for a frame of at least ATR_LEN bars
Indicators(frame) ==
    [close |-> Last(Col(frame, "c")),
     vol   |-> Last(Col(frame, "v")),
     base  |-> Mean(TailN(Col(frame, "c"), ATR_LEN)),
     atr   |-> AverageTrueRange(frame, ATR_LEN),
     vavg  |-> Mean(TailN(Col(frame, "v"), ATR_LEN))]

\* any(pd.isna(x) for x in [base, atr, vavg])
Invalid(ind) == IsNaN(ind.base) \/ IsNaN(ind.atr) \/ IsNaN(ind.vavg)

\* lines 129-157: what the loop body derives from the frame alone
Screen(frame) ==
    LET ind == Indicators(frame)
        rsi_val == RsiVal(frame)
    IN  [ind     |-> ind,
         rsi_val |-> rsi_val,
         cond2   |-> Cond2(ind.close, ind.base, ind.atr, ind.vol, ind.vavg),
         cond3   |-> Cond3(rsi_val)]

\* The provider answers with finitely many frames: Screen of each frame
\* that has enough bars is computed once, here, and looked up by frame.
Screened ==
    {<<PairFrames[name], Screen(PairFrames[name])>> :
        name \in {a \in PairAnswers : ~Insufficient(PairFrames[a])}}

ScreenOf(frame) == (CHOOSE m \in Screened : m[1] = frame)[2]

IndicatorsOf(frame) == ScreenOf(frame).ind

RsiValOf(frame) == ScreenOf(frame).rsi_val

\* lines 155-160: the three conditions
Conditions(frame, btcBelow) ==
    <<btcBelow, ScreenOf(frame).cond2, ScreenOf(frame).cond3>>

\* lines 164-172: the row of a symbol
RowOf(s, frame, btcBelow) ==
    LET conditions == Conditions(frame, btcBelow)
        score == ScoreOf(conditions)
    IN  [Symbol   |-> s,
         Score    |-> score,
         BtcBelow |-> conditions[1],
         WeakVol  |-> conditions[2],
         RsiLt30  |-> conditions[3],
         RSI      |-> RsiValOf(frame),
         State    |-> StateOf(score)]

\* lines 162-172: rows after a symbol is scored
RowsAfter(rws, s, frame, btcBelow) ==
    IF ScoreOf(Conditions(frame, btcBelow)) >= MIN_SCORE
    THEN Append(rws, RowOf(s, frame, btcBelow))
    ELSE rws

\* lines 125-127: no data or not enough bars, the symbol is skipped
SkipInsufficient ==
    /\ pc = "sym_eval"
    /\ Insufficient(df)
    /\ Continue
    /\ UNCHANGED <<run, symCache, syms, btc, rows, df_all, fetched, trendGot, got>>

\* lines 136-138: an indicator is NaN, the symbol is skipped
SkipInvalid ==
    /\ pc = "sym_eval"
    /\ ~Insufficient(df)
    /\ Invalid(IndicatorsOf(df))
    /\ Continue
    /\ UNCHANGED <<run, symCache, syms, btc, rows, df_all, fetched, trendGot, got>>

\* lines 140-172 and 178: the symbol is scored and gets a row when its
\* score is at least 1 (len(gain) is len(df), never under 14 here)
ScoreSymbol ==
    /\ pc = "sym_eval"
    /\ ~Insufficient(df)
    /\ ~Invalid(IndicatorsOf(df))
    /\ rows' = RowsAfter(rows, syms[i], df, btc.below)
    /\ Continue
    /\ UNCHANGED <<run, symCache, syms, btc, df_all, fetched, trendGot, got>>

\* lines 174-176: a statement of the try body raises before the row is
\* appended (the append is the body's last statement); the symbol is skipped
ProcessRaises ==
    /\ pc = "sym_eval"
    /\ got' = [got EXCEPT ![i] = "raised"]
    /\ Continue
    /\ UNCHANGED <<run, symCache, syms, btc, rows, df_all, fetched, trendGot>>

(***************************************************************************)
(* run_screening: the sort and the return (lines 180-185)                  *)
(***************************************************************************)
Perms(n) == {f \in [1..n -> 1..n] : \A a, b \in 1..n : a # b => f[a] # f[b]}

\* ascending in place of descending
PrecedesAscending(a, b) == a.Score <= b.Score

\* what precedes what in sort_values("Score", ascending=False)
Precedes(a, b) == a.Score >= b.Score

\* DataFrame.sort_values with the default kind (quicksort), which is not
\* stable: every arrangement of the rows in the sort order is a possible
\* result
SortValues(rws) ==
    {[j \in 1..Len(rws) |-> rws[f[j]]] : f \in
        {g \in Perms(Len(rws)) :
            \A a, b \in 1..Len(rws) : a < b => Precedes(rws[g[a]], rws[g[b]])}}

Finish ==
    /\ pc = "sort"
    /\ \E sorted \in SortValues(rows) : df_all' = sorted
    /\ pc' = "done"
    /\ UNCHANGED <<run, symCache, syms, i, attempt, outcome, df, btc, rows,
                   fetched, trendGot, got>>

(***************************************************************************)
(* The script's top level: every rerun of the page runs run_screening      *)
(* again (lines 187-189), wait seconds after the previous run.  A run is   *)
(* shorter than the ttl; the cache entry of load_symbols is dropped when   *)
(* its ttl is over.                                                        *)
(***************************************************************************)
Rerun ==
    /\ pc = "done"
    /\ run < MaxRuns
    /\ \E wait \in {0, TTL} :
          /\ symCache' = IF wait >= TTL THEN <<>> ELSE symCache
          /\ fetched' = IF wait >= TTL THEN {} ELSE fetched
    /\ run' = run + 1
    /\ pc' = "start"
    /\ syms' = <<>>
    /\ i' = 0
    /\ attempt' = 0
    /\ outcome' = "none"
    /\ df' = <<>>
    /\ btc' = ZeroTrend
    /\ rows' = <<>>
    /\ df_all' = <<>>
    /\ trendGot' = "none"
    /\ got' = <<>>

Next ==
    \/ LoadSymbols
    \/ \E kind \in ErrorKinds : FetchFail(kind)
    \/ FetchEmpty
    \/ \E name \in PairAnswers \cup TrendAnswers : FetchData(name)
    \/ TrendReturn
    \/ SkipInsufficient
    \/ SkipInvalid
    \/ ScoreSymbol
    \/ ProcessRaises
    \/ Finish
    \/ Rerun

Spec == Init /\ [][Next]_vars

\* the script runs on: a step that can be taken is taken
FairSpec == Spec /\ WF_vars(Next)

(***************************************************************************)
(* Properties                                                              *)
(***************************************************************************)
\* the symbols of this run whose loop iteration is over
Processed == 1..(i - 1)

\* what Screen derives from the provider's 15m frames, by name
ScreenedByName ==
    [name \in {a \in PairAnswers : ~Insufficient(PairFrames[a])} |-> Screen(PairFrames[name])]

\* the answers that are a frame with enough bars and no NaN
Scorable == {"flat", "edge", "dip"}

AllRows == {rows[j] : j \in DOMAIN rows} \cup {df_all[j] : j \in DOMAIN df_all}

ToInt(b) == IF b THEN 1 ELSE 0

\* the rows of symbol s in a sequence of rows
RowsOfSymbol(rws, s) == SelectSeq(rws, LAMBDA r : r.Symbol = s)

\* C1: the score of every evaluated symbol is the number of true conditions
\* among trend (the shared BTC-below-EMA boolean), structure (close < base -
\* 0.3*atr and vol > 2.5*vavg) and oscillator (rsi < 30), an integer in 0..3;
\* trend true, close 98, base 100, atr 5, vol 300, vavg 100 score 3 with rsi
\* 22 and 2 with rsi 45.
C1_ScoreIsConditionCount ==
    /\ \A r \in AllRows :
          /\ r.Score = ToInt(r.BtcBelow) + ToInt(r.WeakVol) + ToInt(r.RsiLt30)
          /\ r.Score \in 0..3
          /\ r.BtcBelow = btc.below
          /\ r.RsiLt30 = Lt(r.RSI, Flt(30))
    /\ \A j \in Processed : got[j] \in Scorable =>
          LET ind == ScreenedByName[got[j]].ind
              own == RowsOfSymbol(rows, syms[j])
          IN  /\ Len(own) = 1
              /\ own[1].WeakVol =
                   (/\ Lt(ind.close, Sub(ind.base, Mul(Fin(3, 10), ind.atr)))
                    /\ Lt(Mul(Fin(5, 2), ind.vavg), ind.vol))
    /\ ScoreOf(<<TRUE, Cond2(Flt(98), Flt(100), Flt(5), Flt(300), Flt(100)),
                 Cond3(Flt(22))>>) = 3
    /\ ScoreOf(<<TRUE, Cond2(Flt(98), Flt(100), Flt(5), Flt(300), Flt(100)),
                 Cond3(Flt(45))>>) = 2

\* a returned snapshot with a symbol of score 3 (close 98, base 100, atr 5,
\* vol 300, vavg 100, trend true) and one of score 2
C1_Witness ==
    /\ pc = "done"
    /\ \E a, b \in DOMAIN df_all :
          /\ df_all[a].Score = 3 /\ got[CHOOSE j \in DOMAIN syms : syms[j] = df_all[a].Symbol] = "dip"
          /\ df_all[b].Score = 2 /\ ~df_all[b].WeakVol

\* the row a symbol's own answer and the trend alone call for
OwnRows(j) ==
    IF got[j] \in Scorable
    THEN <<RowOf(syms[j], PairFrames[got[j]], btc.below)>>
    ELSE <<>>

RECURSIVE OwnRowsUpTo(_)
OwnRowsUpTo(j) == IF j <= 0 THEN <<>> ELSE OwnRowsUpTo(j - 1) \o OwnRows(j)

\* C2: a fetch failure or a processing exception for one symbol never aborts
\* the run and never removes or changes another symbol's row: the rows are,
\* symbol by symbol, what each symbol's own answer calls for, and the run
\* returns only after every symbol of the list had its turn.
C2_FailuresIsolated ==
    /\ pc \in {"sym_fetch", "sym_eval", "sort", "done"} => rows = OwnRowsUpTo(i - 1)
    /\ pc \in {"sort", "done"} /\ syms # <<>> =>
          Len(got) = Len(syms) /\ i = Len(syms) + 1
    /\ pc = "done" =>
          /\ Len(df_all) = Len(rows)
          /\ \A j \in DOMAIN syms : RowsOfSymbol(df_all, syms[j]) = OwnRows(j)

\* a returned snapshot where the second symbol's fetch failed, the first
\* and the third have their rows, and one where the second's processing raised
C2_Witness ==
    /\ pc = "done"
    /\ Len(syms) >= 3
    /\ got[2] \in {"nodata", "raised"}
    /\ got[1] \in Scorable
    /\ got[3] \in Scorable
    /\ Len(df_all) = 2

\* C3: a symbol whose fetch returned fewer than 96 bars, or no bar at all,
\* has no row, whatever the trend boolean is.
C3_ShortSeriesAbsent ==
    \A j \in DOMAIN got :
        (\/ got[j] = "nodata"
         \/ (got[j] \in PairAnswers /\ Len(PairFrames[got[j]]) < 96))
        => \A r \in AllRows : r.Symbol # syms[j]

\* a returned snapshot, the trend boolean true, with a symbol of 95 bars, a
\* symbol of none and a row of a third symbol
C3_Witness ==
    /\ pc = "done"
    /\ btc.below
    /\ \E j, k \in DOMAIN got : got[j] = "short" /\ got[k] = "nodata"
    /\ df_all # <<>>

\* the symbols in alphabetical order
Alphabetical == <<"ADAUSDT", "BNBUSDT", "BTCUSDT", "ETHUSDT", "XRPUSDT">>

AlphaRank(s) == CHOOSE j \in DOMAIN Alphabetical : Alphabetical[j] = s

TrendUnavailable == trendGot \in {"nodata", "tshort"}

C7_RsiInRange ==
    \A r \in AllRows :
        /\ IsFin(r.RSI)
        /\ Le(Flt(0), r.RSI)
        /\ Le(r.RSI, Flt(100))

\* C8: every row has a score in {1, 2, 3} and the State label of its score:
\* 3 FULL PRE-DIP, 2 NEAR-DIP, 1 WARM-DIP.
C8_ScoreAndLabel ==
    \A r \in AllRows :
        /\ r.Score \in {1, 2, 3}
        /\ r.Score = 3 => r.State = "FULL PRE-DIP"
        /\ r.Score = 2 => r.State = "NEAR-DIP"
        /\ r.Score = 1 => r.State = "WARM-DIP"

\* a returned snapshot with a row of score 2 and a row of score 1
C8_Witness ==
    /\ pc = "done"
    /\ \E a, b \in DOMAIN df_all : df_all[a].Score = 2 /\ df_all[b].Score = 1

\* C6 as claimed: within one TTL window every (symbol, interval, limit) key
\* is requested upstream at most once, across the retries of a run and
\* across runs: no request is issued for a key already requested since the
\* window began.
C6_OneRequestPerWindow ==
    [][attempt' = attempt + 1 => CallKey \notin fetched]_vars

\* C9: every run terminates and returns a snapshot and the trend values,
\* whatever the fetches do; no fetch error leaves the run.
C9_RunReturns ==
    /\ [](pc # "aborted")
    /\ [](pc = "done" => /\ Len(df_all) <= Len(syms)
                         /\ btc \in [close : {btc.close}, ema : {btc.ema},
                                     below : BOOLEAN])
    /\ (pc = "start") ~> (pc = "done")

\* a run returned after its trend fetch and a symbol's fetch had returned
\* no data and another symbol's processing had raised
C9_Witness ==
    /\ pc = "done"
    /\ trendGot = "nodata"
    /\ \E j, k \in DOMAIN got : got[j] = "nodata" /\ got[k] = "raised"

\* C10: one call of fetch_ohlcv issues at most RETRIES upstream requests, a
\* further one only after the previous one raised; it returns at the first
\* answer (the parsed frame, or an empty frame for an empty body) and with
\* an empty frame after RETRIES failed requests; a symbol's call has
\* returned before the next symbol's first request.
C10_RetryPolicy ==
    /\ [](attempt <= RETRIES)
    /\ [](pc \in {"trend_eval", "sym_eval"} =>
            \/ outcome = "data" /\ attempt \in 1..RETRIES /\ Len(df) > 0
            \/ outcome = "empty" /\ attempt \in 1..RETRIES /\ df = <<>>
            \/ outcome = "error" /\ attempt = RETRIES /\ df = <<>>)
    /\ [](InFetch => outcome \in {"none", "error"} /\ (outcome = "none") = (attempt = 0))
    /\ [][attempt' = attempt + 1 => InFetch /\ (attempt = 0 \/ outcome = "error")]_vars
    /\ [][i' # i => ~InFetch]_vars

\* a symbol's call that returned a frame at its third request, after two
\* requests that raised
C10_Witness ==
    /\ pc = "sym_eval"
    /\ i = 2
    /\ attempt = RETRIES
    /\ outcome = "data"

====
